---- MODULE Spec2Model ----
(***************************************************************************)
(* Model of bin/gramps.js, the gramps command line: yargs parses the       *)
(* flags, getDataSource stages a mock data source into <rootDir>/.tmp,     *)
(* getConfig resolves the private config file (and stops a live run that   *)
(* has none), and the script hands one command line to the shell.          *)
(*                                                                         *)
(* A string that reaches the shell is a sequence of tokens in which " "    *)
(* is a blank; a path is [abs, segs], each segment a sequence of words     *)
(* that blanks separate ("my conf.json" is <<"my", "conf.json">>).         *)
(***************************************************************************)
EXTENDS Integers, Sequences, FiniteSets, TLC

\* Number of successive invocations of the command that the model follows.
MaxRuns == 2

LIVE_DATA_ENV == "production"
MOCK_DATA_ENV == "development"

----------------------------------------------------------------------------
\* Paths (node's path module) and the file system the command runs in.

MkPath(abs, segs) == [abs |-> abs, segs |-> segs]

\* The empty string: the default of --config and --data-source-dir.
EmptyPath == MkPath(FALSE, <<>>)

\* process.cwd()
Cwd == MkPath(TRUE, << <<"work">> >>)

\* path.resolve(__dirname, '..')
rootDir == MkPath(TRUE, << <<"app">> >>)

\* A non-empty string is truthy.
Truthy(p) == p # EmptyPath

\* path.join(a, b): the two strings joined by a separator and normalised;
\* an absolute b does not restart the path.
PathJoin_restart(a, b) == IF b.abs THEN b ELSE MkPath(a.abs, a.segs \o b.segs)
PathJoin(a, b) == MkPath(a.abs, a.segs \o b.segs)

\* path.resolve(a, b): b itself when b is absolute, else b below a.
PathResolve(a, b) == IF b.abs THEN b ELSE MkPath(TRUE, a.segs \o b.segs)

SrcFile(name, body) == [name |-> name, body |-> <<body>>]

\* The directories of the file system: for each, its src/*.graphql and
\* src/*.js files in glob order.
DirTree ==
  (MkPath(TRUE, << <<"work">>, <<"ds">> >>) :>
      [gql |-> << SrcFile("a.graphql", "typeA"), SrcFile("s.graphql", "typeS") >>,
       js  |-> << SrcFile("b.js", "es6B") >>])
  @@ (MkPath(TRUE, << <<"work">>, <<"empty">> >>) :>
      [gql |-> <<>>, js |-> <<>>])
  @@ (MkPath(TRUE, << <<"work">>, <<"work">>, <<"ds">> >>) :>
      [gql |-> << SrcFile("c.graphql", "typeC") >>,
       js  |-> << SrcFile("d.js", "es6D") >>])

\* The regular files of the file system (besides those of DirTree).
RegularFiles ==
  { MkPath(TRUE, << <<"work">>, <<"secret.json">> >>),
    MkPath(TRUE, << <<"work">>, <<"my", "conf.json">> >>) }

\* shell.test('-d', p) and shell.test('-f', p): relative paths are looked
\* up from the current working directory.
TestD(p) == PathResolve(Cwd, p) \in DOMAIN DirTree
TestF(p) == PathResolve(Cwd, p) \in RegularFiles

\* globby.sync(path.join(dir, 'src/*.graphql')), ...('src/*.js')
GlobGQL(dir) == IF dir \in DOMAIN DirTree THEN DirTree[dir].gql ELSE <<>>
GlobJS(dir) == IF dir \in DOMAIN DirTree THEN DirTree[dir].js ELSE <<>>

\* babel.transformFileSync(file).code
Transpile(body) == <<"babel">> \o body

----------------------------------------------------------------------------
\* The scratch directory <rootDir>/.tmp: absent, a directory of files, or
\* (after a copy onto a path that is no directory) a regular file.

NoFiles == [n \in {} |-> <<>>]
Absent == [kind |-> "absent", files |-> NoFiles]
Dir(files) == [kind |-> "dir", files |-> files]
AsFile(body) == [kind |-> "file", files |-> ("." :> body)]

Put(files, name, body) ==
  [n \in (DOMAIN files) \cup {name} |-> IF n = name THEN body ELSE files[n]]

\* shell.rm('-rf', tmpDir): a path that is not there is no error.
RmRf(s, ok) == IF ok \/ s.kind = "absent" THEN Absent ELSE s

\* shell.mkdir(tmpDir): fails on a path that exists.
Mkdir(s, ok) == IF s.kind = "absent" /\ ok THEN Dir(NoFiles) ELSE s

\* makeTmpDir's two commands on the scratch directory.
Recreate_merge(s, rmOk, mkdirOk) == IF s.kind = "dir" THEN s ELSE Mkdir(s, mkdirOk)
Recreate(s, rmOk, mkdirOk) == Mkdir(RmRf(s, rmOk), mkdirOk)

\* Whether one of them reported an error: rm -rf that could not remove a
\* path that is there, mkdir that could not create the directory.
RecreateFailed(s, rmOk, mkdirOk) == (s.kind # "absent" /\ ~rmOk) \/ ~mkdirOk

\* shell.cp(file, tmpDir): into the directory under the file's base name;
\* onto the path itself when it is no directory.
Cp(s, f, ok) ==
  IF ~ok THEN s
  ELSE IF s.kind = "dir" THEN Dir(Put(s.files, f.name, f.body))
  ELSE AsFile(f.body)

\* shell.touch(tmpFile); shell.ShellString(code).to(tmpFile)
TouchTo(s, f, touchOk, toOk) ==
  IF s.kind # "dir" THEN s
  ELSE IF toOk THEN Dir(Put(s.files, f.name, Transpile(f.body)))
  ELSE IF touchOk /\ f.name \notin DOMAIN s.files
       THEN Dir(Put(s.files, f.name, <<>>))
  ELSE s

\* What the scratch directory may hold before a run.
PriorScratch ==
  { Absent,
    Dir(NoFiles),
    Dir("old.js" :> <<"stale">>),
    Dir(("a.graphql" :> <<"stale">>) @@ ("b.js" :> <<"stale">>)) }

----------------------------------------------------------------------------
\* Strings handed to the shell.

RECURSIVE SegStr(_)
SegStr(seg) ==
  IF Len(seg) = 0 THEN <<>>
  ELSE IF Len(seg) = 1 THEN <<seg[1]>>
  ELSE <<seg[1], " ">> \o SegStr(Tail(seg))

RECURSIVE SegsStr(_)
SegsStr(segs) ==
  IF Len(segs) = 0 THEN <<>>
  ELSE IF Len(segs) = 1 THEN SegStr(segs[1])
  ELSE SegStr(segs[1]) \o <<"/">> \o SegsStr(Tail(segs))

PathStr(p) == (IF p.abs THEN <<"/">> ELSE <<>>) \o SegsStr(p.segs)

EnvNames == {"APP_ENV_PRIVATE", "GQL_DATA_SOURCES", "NODE_ENV"}

\* The shell's word splitting of a command line.
RECURSIVE SplitWords(_, _, _)
SplitWords(s, cur, acc) ==
  IF s = <<>> THEN (IF cur = <<>> THEN acc ELSE Append(acc, cur))
  ELSE IF Head(s) = " "
       THEN SplitWords(Tail(s), <<>>, IF cur = <<>> THEN acc ELSE Append(acc, cur))
  ELSE SplitWords(Tail(s), Append(cur, Head(s)), acc)

IsAssignment(w) == Len(w) >= 2 /\ w[1] \in EnvNames /\ w[2] = "="

\* The leading NAME=value words of a simple command are its environment.
RECURSIVE Assignments(_)
Assignments(ws) ==
  IF ws # <<>> /\ IsAssignment(Head(ws))
  THEN {<<Head(ws)[1], SubSeq(Head(ws), 3, Len(Head(ws)))>>} \cup Assignments(Tail(ws))
  ELSE {}

RECURSIVE CommandWords(_)
CommandWords(ws) ==
  IF ws # <<>> /\ IsAssignment(Head(ws)) THEN CommandWords(Tail(ws)) ELSE ws

NoChild == [spawned |-> FALSE, env |-> {}, cmd |-> <<>>]

\* shell.exec(command): /bin/sh -c command
ShellExec(command) ==
  LET ws == SplitWords(command, <<>>, <<>>)
  IN  [spawned |-> TRUE, env |-> Assignments(ws), cmd |-> CommandWords(ws)]

ServerCmd == << <<"node">>, <<"dist/server.js">> >>

----------------------------------------------------------------------------
\* The command line.

ConfigArgs ==
  { EmptyPath,
    MkPath(FALSE, << <<"secret.json">> >>),
    MkPath(TRUE, << <<"work">>, <<"secret.json">> >>),
    MkPath(FALSE, << <<"my", "conf.json">> >>),
    MkPath(FALSE, << <<"missing.json">> >>),
    MkPath(FALSE, << <<"ds">> >>) }

DataSourceArgs ==
  { EmptyPath,
    MkPath(FALSE, << <<"ds">> >>),
    MkPath(TRUE, << <<"work">>, <<"ds">> >>),
    MkPath(FALSE, << <<"empty">> >>),
    MkPath(TRUE, << <<"work">>, <<"empty">> >>),
    MkPath(FALSE, << <<"nope">> >>),
    MkPath(FALSE, << <<"secret.json">> >>) }

\* With --help the other options are not looked at.
Argvs ==
  [live : BOOLEAN, mock : BOOLEAN, help : {FALSE},
   config : ConfigArgs, dataSourceDir : DataSourceArgs]
  \cup [live : BOOLEAN, mock : BOOLEAN, help : {TRUE},
        config : {EmptyPath}, dataSourceDir : {EmptyPath}]

----------------------------------------------------------------------------
\* The decisions of the script.

\* yargs: live conflicts with mock, mock conflicts with live.
Conflicts_off(a) == FALSE
Conflicts(a) == a.live /\ a.mock

\* const env = argv.live ? LIVE_DATA_ENV : MOCK_DATA_ENV
RunMode(a) == IF a.live THEN LIVE_DATA_ENV ELSE MOCK_DATA_ENV

\* getDataSource's guard: !relSrcDir || !shell.test('-d', relSrcDir)
DataSourceUsable_anyGiven(rel) == Truthy(rel)
DataSourceUsable(rel) == Truthy(rel) /\ TestD(rel)

\* const srcDir = path.join(process.cwd(), relSrcDir)
SrcDirOf(rel) == PathJoin(Cwd, rel)

\* const tmpDir = path.join(rootDir, '.tmp')
tmpDir == PathJoin(rootDir, MkPath(FALSE, << <<".tmp">> >>))

\* return `GQL_DATA_SOURCES=${tmpDir}`
DataSourceVar == <<"GQL_DATA_SOURCES", "=">> \o PathStr(tmpDir)

\* getConfig's guard: !configFile || !shell.test('-f', configFile)
ConfigUsable(f) == Truthy(f) /\ TestF(f)

\* return `APP_ENV_PRIVATE=${configPath}`
ConfigVar(f) == <<"APP_ENV_PRIVATE", "=">> \o PathStr(PathResolve(Cwd, f))

\* requireConfigInLiveMode: returns unless env is LIVE_DATA_ENV, else
\* prints the error and calls shell.exit(1).
MustExit_never(e) == FALSE
MustExit_always(e) == TRUE
MustExit(e) == e = LIVE_DATA_ENV

\* `${config} ${source} NODE_ENV=${env} node dist/server.js`
Command(cfg, src, e) ==
  cfg \o <<" ">> \o src \o <<" ", "NODE_ENV", "=", e, " ", "node", " ", "dist/server.js">>

\* The order of the script's calls: getDataSource, getConfig, shell.exec.
Pipeline_gateFirst == <<"getConfig", "getDataSource", "launch">>
Pipeline == <<"getDataSource", "getConfig", "launch">>

StageAfter(stage) ==
  LET i == CHOOSE k \in 1..Len(Pipeline) : Pipeline[k] = stage
  IN  IF i < Len(Pipeline) THEN Pipeline[i + 1] ELSE "end"

\* A shelljs command that fails reports the error and returns
\* (shell.config.fatal is left false): the script goes on to `next`.
AfterShellError_fatal(next) == "exited"
AfterShellError(next) == next

\* babel.transformFileSync throws on a file it cannot compile; nothing
\* catches it, so node ends the process.
AfterThrow(next) == "exited"

----------------------------------------------------------------------------
VARIABLES
  argv,       \* the flags of this invocation
  pc,         \* where the script is
  env,        \* const env, "unset" before line 183
  srcDir,     \* getDataSource's srcDir
  todo,       \* files of the running forEach still to handle
  source,     \* const source: the string getDataSource returned
  config,     \* const config: the string getConfig returned
  scratch,    \* <rootDir>/.tmp on disk
  exitCode,   \* the process's exit code, -1 while it runs
  out,        \* diagnostics echoed by this invocation
  child,      \* what shell.exec started
  runs,       \* invocations so far
  scratch0,   \* history: scratch when this invocation began
  touched,    \* history: makeTmpDir was entered in this invocation
  failed,     \* history: a shelljs command failed in this invocation
  threw,      \* history: babel threw in this invocation
  staged,     \* history: what getDataSource staged in this invocation
  prevStaged  \* history: `staged` of the invocation before

vars == <<argv, pc, env, srcDir, todo, source, config, scratch, exitCode, out,
          child, runs, scratch0, touched, failed, threw, staged, prevStaged>>

NotStaged == [done |-> FALSE, clean |-> FALSE, src |-> EmptyPath, result |-> Absent]

history == <<scratch0, prevStaged, runs>>

Init ==
  /\ argv \in Argvs
  /\ pc = "parse"
  /\ env = "unset"
  /\ srcDir = EmptyPath
  /\ todo = <<>>
  /\ source = <<>>
  /\ config = <<>>
  /\ scratch \in PriorScratch
  /\ exitCode = -1
  /\ out = {}
  /\ child = NoChild
  /\ runs = 1
  /\ scratch0 = scratch
  /\ touched = FALSE
  /\ failed = FALSE
  /\ threw = FALSE
  /\ staged = NotStaged
  /\ prevStaged = NotStaged

\* require('yargs')...help().alias('help', 'h').argv
Parse ==
  /\ pc = "parse"
  /\ IF argv.help
     THEN /\ out' = out \cup {"usage"}
          /\ pc' = "exited"
          /\ exitCode' = 0
     ELSE IF Conflicts(argv)
     THEN /\ out' = out \cup {"mutuallyExclusive"}
          /\ pc' = "exited"
          /\ exitCode' = 1
     ELSE /\ pc' = "main"
          /\ UNCHANGED <<out, exitCode>>
  /\ UNCHANGED <<argv, env, srcDir, todo, source, config, scratch, child,
                 touched, failed, threw, staged, history>>

\* const rootDir = ...; const env = ...
ResolveMode ==
  /\ pc = "main"
  /\ env' = RunMode(argv)
  /\ pc' = Pipeline[1]
  /\ UNCHANGED <<argv, srcDir, todo, source, config, scratch, exitCode, out,
                 child, touched, failed, threw, staged, history>>

\* getDataSource up to printDevWarning
GetDataSource ==
  /\ pc = "getDataSource"
  /\ IF ~DataSourceUsable(argv.dataSourceDir)
     THEN /\ out' = IF Truthy(argv.dataSourceDir)
                    THEN out \cup {"dataSourceMissing"} ELSE out
          /\ source' = <<>>
          /\ pc' = StageAfter("getDataSource")
          /\ UNCHANGED srcDir
     ELSE /\ srcDir' = SrcDirOf(argv.dataSourceDir)
          /\ out' = out \cup {"devWarning"}
          /\ pc' = "makeTmpDir"
          /\ UNCHANGED source
  /\ UNCHANGED <<argv, env, todo, config, scratch, exitCode, child,
                 touched, failed, threw, staged, history>>

\* makeTmpDir(tmpDir), then copyGQL's glob
MakeTmpDir ==
  /\ pc = "makeTmpDir"
  /\ \E rmOk \in BOOLEAN, mkdirOk \in BOOLEAN :
       LET made == Recreate(scratch, rmOk, mkdirOk)
           err == RecreateFailed(scratch, rmOk, mkdirOk)
           next == IF err THEN AfterShellError("copyGQL") ELSE "copyGQL"
       IN  /\ scratch' = made
           /\ failed' = (failed \/ err)
           /\ pc' = next
           /\ exitCode' = IF next = "exited" THEN 1 ELSE exitCode
  /\ touched' = TRUE
  /\ todo' = GlobGQL(srcDir)
  /\ UNCHANGED <<argv, env, srcDir, source, config, out, child, threw,
                 staged, history>>

\* copyGQL: one file of the forEach
CopyGQL ==
  /\ pc = "copyGQL"
  /\ todo # <<>>
  /\ \E ok \in BOOLEAN :
       LET next == IF ok THEN "copyGQL" ELSE AfterShellError("copyGQL")
       IN  /\ scratch' = Cp(scratch, Head(todo), ok)
           /\ failed' = (failed \/ ~ok)
           /\ pc' = next
           /\ exitCode' = IF next = "exited" THEN 1 ELSE exitCode
  /\ todo' = Tail(todo)
  /\ UNCHANGED <<argv, env, srcDir, source, config, out, child, touched,
                 threw, staged, history>>

\* copyGQL returns; transpileJS's glob
CopyGQLDone ==
  /\ pc = "copyGQL"
  /\ todo = <<>>
  /\ todo' = GlobJS(srcDir)
  /\ pc' = "transpileJS"
  /\ UNCHANGED <<argv, env, srcDir, source, config, scratch, exitCode, out,
                 child, touched, failed, threw, staged, history>>

\* transpileJS: one file of the forEach
TranspileJS ==
  /\ pc = "transpileJS"
  /\ todo # <<>>
  /\ \/ \E touchOk \in BOOLEAN, toOk \in BOOLEAN :
          LET err == scratch.kind # "dir" \/ ~touchOk \/ ~toOk
              next == IF err THEN AfterShellError("transpileJS") ELSE "transpileJS"
          IN  /\ scratch' = TouchTo(scratch, Head(todo), touchOk, toOk)
              /\ failed' = (failed \/ err)
              /\ pc' = next
              /\ exitCode' = IF next = "exited" THEN 1 ELSE exitCode
              /\ UNCHANGED threw
     \/ /\ threw' = TRUE
        /\ pc' = AfterThrow("transpileJS")
        /\ exitCode' = IF pc' = "exited" THEN 1 ELSE exitCode
        /\ UNCHANGED <<scratch, failed>>
  /\ todo' = Tail(todo)
  /\ UNCHANGED <<argv, env, srcDir, source, config, out, child, touched,
                 staged, history>>

\* getDataSource's last lines: the party message and the return
DataSourceReady ==
  /\ pc = "transpileJS"
  /\ todo = <<>>
  /\ out' = out \cup {"dataSourceReady"}
  /\ source' = DataSourceVar
  /\ staged' = [done |-> TRUE, clean |-> ~failed /\ ~threw, src |-> srcDir,
                result |-> scratch]
  /\ pc' = StageAfter("getDataSource")
  /\ UNCHANGED <<argv, env, srcDir, todo, config, scratch, exitCode, child,
                 touched, failed, threw, history>>

\* getConfig, with requireConfigInLiveMode
GetConfig ==
  /\ pc = "getConfig"
  /\ IF ~ConfigUsable(argv.config)
     THEN /\ IF MustExit(env)
             THEN /\ out' = (IF Truthy(argv.config)
                             THEN out \cup {"configMissing"} ELSE out)
                            \cup {"configRequired"}
                  /\ pc' = "exited"
                  /\ exitCode' = 1
                  /\ UNCHANGED config
             ELSE /\ out' = IF Truthy(argv.config)
                            THEN out \cup {"configMissing"} ELSE out
                  /\ config' = <<>>
                  /\ pc' = StageAfter("getConfig")
                  /\ UNCHANGED exitCode
     ELSE /\ out' = out \cup {"configLoaded"}
          /\ config' = ConfigVar(argv.config)
          /\ pc' = StageAfter("getConfig")
          /\ UNCHANGED exitCode
  /\ UNCHANGED <<argv, env, srcDir, todo, source, scratch, child,
                 touched, failed, threw, staged, history>>

\* shell.cd(rootDir); shell.exec(...)
Launch ==
  /\ pc = "launch"
  /\ child' = ShellExec(Command(config, source, env))
  /\ pc' = "launched"
  /\ UNCHANGED <<argv, env, srcDir, todo, source, config, scratch, exitCode,
                 out, touched, failed, threw, staged, history>>

\* The process is over (shell.exit, an uncaught exception, or the end of
\* the script once shell.exec returns); the file system stays.
ProcessEnds ==
  /\ pc \in {"exited", "launched"}
  /\ pc' = "ended"
  /\ exitCode' = IF pc = "launched" THEN 0 ELSE exitCode
  /\ env' = "unset"
  /\ srcDir' = EmptyPath
  /\ todo' = <<>>
  /\ source' = <<>>
  /\ config' = <<>>
  /\ out' = {}
  /\ child' = NoChild
  /\ touched' = FALSE
  /\ failed' = FALSE
  /\ threw' = FALSE
  /\ argv' = [live |-> FALSE, mock |-> FALSE, help |-> FALSE,
              config |-> EmptyPath, dataSourceDir |-> EmptyPath]
  /\ UNCHANGED <<scratch, staged, history>>

\* The command is invoked again.
NewRun ==
  /\ pc = "ended"
  /\ runs < MaxRuns
  /\ runs' = runs + 1
  /\ argv' \in Argvs
  /\ pc' = "parse"
  /\ exitCode' = -1
  /\ scratch0' = scratch
  /\ prevStaged' = staged
  /\ staged' = NotStaged
  /\ UNCHANGED <<env, srcDir, todo, source, config, out, child, scratch,
                 touched, failed, threw>>

Next ==
  \/ Parse
  \/ ResolveMode
  \/ GetDataSource
  \/ MakeTmpDir
  \/ CopyGQL
  \/ CopyGQLDone
  \/ TranspileJS
  \/ DataSourceReady
  \/ GetConfig
  \/ Launch
  \/ ProcessEnds
  \/ NewRun

Spec == Init /\ [][Next]_vars

----------------------------------------------------------------------------
\* Vocabulary of the properties.

\* The invocation of this state is still there to look at.
InRun == pc # "ended"

Over == pc \in {"exited", "launched"}

\* The option names an existing directory / an existing regular file.
ValidDataSource == Truthy(argv.dataSourceDir) /\ TestD(argv.dataSourceDir)
ValidConfig == Truthy(argv.config) /\ TestF(argv.config)

\* The directory the option names, and the option's spelling.
NamedDir == PathResolve(Cwd, argv.dataSourceDir)
Relative == ~argv.dataSourceDir.abs

\* The run was stopped by requireConfigInLiveMode.
GateExit == pc = "exited" /\ "configRequired" \in out

FileNames(fs) == {fs[i].name : i \in 1..Len(fs)}
BodyOf(fs, n) == fs[CHOOSE i \in 1..Len(fs) : fs[i].name = n].body

\* The schema files of a directory as they are and its modules compiled,
\* each under its own name.
StagedFrom(dir) ==
  LET g == GlobGQL(dir)
      j == GlobJS(dir)
  IN  Dir([n \in FileNames(g) \cup FileNames(j) |->
             IF n \in FileNames(g) THEN BodyOf(g, n) ELSE Transpile(BodyOf(j, n))])

EnvNamesOf(c) == {a[1] : a \in c.env}

----------------------------------------------------------------------------
\* C1: a live run whose --config is empty or names no existing regular file
\* never starts the server, and when it is over its exit code is 1.
C1_LiveWithoutConfigExits ==
  (InRun /\ env = LIVE_DATA_ENV /\ ~ValidConfig) =>
    /\ ~child.spawned
    /\ pc \notin {"launch", "launched"}
    /\ (Over => pc = "exited" /\ exitCode = 1)

C1_Witness ==
  /\ env = LIVE_DATA_ENV
  /\ Truthy(argv.config)
  /\ ~ValidConfig
  /\ GateExit
  /\ exitCode = 1

\* C2: with --live and --mock together the arguments are rejected (exit
\* code 1) and neither a staging step nor the launch ever happens.
C2_ConflictRejectedFirst ==
  (InRun /\ argv.live /\ argv.mock) =>
    /\ pc \in {"parse", "exited"}
    /\ ~touched
    /\ scratch = scratch0
    /\ ~staged.done
    /\ ~child.spawned
    /\ (pc = "exited" /\ ~argv.help =>
          exitCode = 1 /\ "mutuallyExclusive" \in out)

C2_Witness ==
  /\ argv.live /\ argv.mock
  /\ ValidDataSource
  /\ ValidConfig
  /\ pc = "exited"
  /\ exitCode = 1
  /\ scratch0.kind = "dir"

C4_NoDataSourceIsNoOp ==
  (InRun /\ ~ValidDataSource) =>
    /\ scratch = scratch0
    /\ ~touched /\ ~failed /\ ~threw /\ ~staged.done
    /\ source = <<>>
    /\ "GQL_DATA_SOURCES" \notin EnvNamesOf(child)
    /\ ("dataSourceMissing" \in out) =
         (Truthy(argv.dataSourceDir)
            /\ (pc \in {"getConfig", "launch", "launched"} \/ GateExit))
    /\ pc = "exited" => (argv.help \/ (argv.live /\ argv.mock) \/ GateExit)
    /\ (env = MOCK_DATA_ENV /\ Over => pc = "launched" /\ child.spawned)

C4_Witness ==
  /\ Truthy(argv.dataSourceDir)
  /\ ~ValidDataSource
  /\ env = MOCK_DATA_ENV
  /\ pc = "launched"
  /\ child.spawned
  /\ scratch0.kind = "dir"
  /\ scratch = scratch0
  /\ "dataSourceMissing" \in out

\* C5 as stated: the child's environment is exactly GQL_DATA_SOURCES (set to
\* the scratch directory, iff a source was staged), APP_ENV_PRIVATE (set to
\* the config path, iff a valid config was given) and NODE_ENV (production
\* in a live run, development otherwise).
C5_ChildEnvExact ==
  pc = "launched" =>
    child.env =
      (IF staged.done THEN {<<"GQL_DATA_SOURCES", PathStr(tmpDir)>>} ELSE {})
      \cup (IF ValidConfig
            THEN {<<"APP_ENV_PRIVATE", PathStr(PathResolve(Cwd, argv.config))>>}
            ELSE {})
      \cup {<<"NODE_ENV", <<IF argv.live THEN "production" ELSE "development">> >>}

\* C6: in a mock run a missing config does not stop the run: no
\* APP_ENV_PRIVATE is produced, the warning is printed exactly for a
\* non-empty path, requireConfigInLiveMode ends only live runs, and the run
\* reaches the launch.
C6_MockRunsWithoutConfig ==
  /\ (InRun /\ env = MOCK_DATA_ENV /\ ~ValidConfig) =>
       /\ config = <<>>
       /\ "APP_ENV_PRIVATE" \notin EnvNamesOf(child)
       /\ ~GateExit
       /\ ("configMissing" \in out) =
            (Truthy(argv.config) /\ pc \in {"launch", "launched"})
       /\ (pc = "exited" => threw)
       /\ (Over /\ ~threw => pc = "launched" /\ child.spawned)
  /\ ("configRequired" \in out) => (env = LIVE_DATA_ENV /\ pc = "exited" /\ exitCode = 1)

C6_Witness ==
  /\ env = MOCK_DATA_ENV
  /\ Truthy(argv.config)
  /\ ~ValidConfig
  /\ pc = "launched"
  /\ child.spawned
  /\ child.cmd = ServerCmd
  /\ "configMissing" \in out

C8_StagedDirIsNamedDir ==
  (InRun /\ touched) => srcDir = NamedDir

\* C8 amended: for a relative spelling the directory tested and the
\* directory staged are the same; for an absolute spelling the directory
\* tested is the one named, and the one staged is that path taken below
\* the working directory.
C8_StagedDirIsJoined ==
  (InRun /\ touched) =>
    /\ TestD(argv.dataSourceDir)
    /\ Relative => srcDir = NamedDir
    /\ ~Relative =>
         srcDir = MkPath(TRUE, Cwd.segs \o argv.dataSourceDir.segs)
    /\ (staged.done /\ staged.clean) => scratch = StagedFrom(srcDir)

C8_Witness ==
  /\ InRun /\ ~Relative /\ ValidDataSource
  /\ staged.done /\ staged.clean
  /\ srcDir # NamedDir
  /\ scratch = StagedFrom(srcDir)
  /\ scratch # StagedFrom(NamedDir)
  /\ scratch.files # NoFiles

\* C9 as stated: a run that requireConfigInLiveMode ends has not touched
\* the scratch directory.
C9_GateBeforeStaging ==
  GateExit => (~touched /\ scratch = scratch0)

\* C9 amended: the order is resolver, stager, mode gate, launcher: when the
\* config is looked at, staging is over, so a run that
\* requireConfigInLiveMode ends has staged a valid --data-source-dir, and
\* has left the scratch directory alone only without one.
C9_StagingBeforeGate ==
  /\ (pc = "getConfig" \/ GateExit) =>
       /\ ValidDataSource => touched /\ staged.done /\ source = DataSourceVar
       /\ ~ValidDataSource => ~touched /\ scratch = scratch0
  /\ pc \in {"getDataSource", "makeTmpDir", "copyGQL", "transpileJS"} =>
       config = <<>> /\ out \cap {"configMissing", "configRequired", "configLoaded"} = {}

C9_Witness ==
  /\ GateExit
  /\ exitCode = 1
  /\ ValidDataSource
  /\ staged.done /\ staged.clean
  /\ scratch0 = Dir("old.js" :> <<"stale">>)
  /\ scratch # scratch0

\* C10 as stated: a live run with a valid config and a valid
\* --data-source-dir starts the server with GQL_DATA_SOURCES set to the
\* scratch directory and NODE_ENV=production.
C10_LiveRunStagesToo ==
  (pc = "launched" /\ argv.live /\ ValidConfig /\ ValidDataSource) =>
    /\ staged.done
    /\ child.cmd = ServerCmd
    /\ <<"GQL_DATA_SOURCES", PathStr(tmpDir)>> \in child.env
    /\ <<"NODE_ENV", <<"production">> >> \in child.env

====
